---- MODULE Spec2Model ----
(***************************************************************************)
(* Model of the attribute and shape parsing of twilight-interactions-derive *)
(*   attributes.rs                  find_attr, TypeAttribute, FieldAttribute,*)
(*                                  parse_name, parse_description, parse_doc,*)
(*                                  NamedAttrs, AttrValue                    *)
(*   command/subcommand/parse.rs    ParsedVariant, VariantAttribute,         *)
(*                                  TypeAttribute (subcommand flavour)       *)
(*                                                                         *)
(* A string is a sequence of Unicode scalar values (one-character atoms).   *)
(* Every operation is a pure function of one declaration's syntax; an       *)
(* action of the state machine is one invocation on one input.              *)
(***************************************************************************)
EXTENDS Integers, Sequences, FiniteSets, TLC

VARIABLES op, input, result

vars == <<op, input, result>>

(***************************************************************************)
(* Strings                                                                 *)
(***************************************************************************)

\* UTF-8 width of a scalar value; "U+00E9" is one scalar value that takes two
\* bytes, every other scalar value of the inputs takes one.
utf8_len(c) == IF c = "U+00E9" THEN 2 ELSE 1

\* str::len: the length of a string in bytes.
RECURSIVE str_len(_)
str_len(s) == IF s = <<>> THEN 0 ELSE utf8_len(Head(s)) + str_len(Tail(s))

\* Mutation of chars_count: the length is taken in bytes (`val.len()`).
chars_count_in_bytes(s) == str_len(s)

\* `val.chars().count()`: the number of Unicode scalar values.
chars_count(s) == Len(s)

\* char::is_whitespace, as used by str::trim.
is_whitespace(c) == c \in {" ", "\n"}

RECURSIVE trim_start(_)
trim_start(s) ==
    IF s # <<>> /\ is_whitespace(Head(s)) THEN trim_start(Tail(s)) ELSE s

RECURSIVE trim_end(_)
trim_end(s) ==
    IF s # <<>> /\ is_whitespace(s[Len(s)])
    THEN trim_end(SubSeq(s, 1, Len(s) - 1))
    ELSE s

\* Mutation of trim: only the leading whitespace is removed.
trim_leading_only(s) == trim_start(s)

\* str::trim
trim(s) == trim_end(trim_start(s))

\* `hay.contains(needle)` on strings: needle occurs as a substring of hay.
str_contains(hay, needle) ==
    \E i \in 0..(Len(hay) - Len(needle)) :
        SubSeq(hay, i + 1, i + Len(needle)) = needle

\* `expected.join(", ")`
RECURSIVE join(_)
join(strs) ==
    IF strs = <<>> THEN <<>>
    ELSE IF Len(strs) = 1 THEN strs[1]
    ELSE strs[1] \o <<",", " ">> \o join(Tail(strs))

\* The identifiers of the attribute vocabulary.
K_name == <<"n", "a", "m", "e">>
K_desc == <<"d", "e", "s", "c">>
K_default_permission ==
    <<"d", "e", "f", "a", "u", "l", "t", "_",
      "p", "e", "r", "m", "i", "s", "s", "i", "o", "n">>
K_rename == <<"r", "e", "n", "a", "m", "e">>
K_channel_types ==
    <<"c", "h", "a", "n", "n", "e", "l", "_", "t", "y", "p", "e", "s">>
K_command == <<"c", "o", "m", "m", "a", "n", "d">>
K_doc == <<"d", "o", "c">>

(***************************************************************************)
(* Result, Option and Error values                                         *)
(***************************************************************************)

Ok(v) == [ok |-> TRUE, val |-> v]

\* Error::new(span, message), the message being fmt with arg substituted for
\* its {} (arg is the empty string for a fixed message).  A backquote of a
\* message of the source is written as a quote.
Error_new_fmt(span, fmt, arg) ==
    [ok |-> FALSE, err |-> [span |-> span, msg |-> fmt, arg |-> arg]]

Error_new(span, msg) == Error_new_fmt(span, msg, <<>>)

None == [some |-> FALSE]
Some(v) == [some |-> TRUE, val |-> v]

(***************************************************************************)
(* AttrValue (attributes.rs)                                               *)
(***************************************************************************)

\* A literal token: kind is "Str", "Bool" or "Int"; `str` is the text of a
\* string literal, `bool` the value of a boolean literal.
AttrValue_span(v) == v.span

AttrValue_parse_string(v) ==
    IF v.kind = "Str" THEN Ok(v.str)
    ELSE Error_new(v.span, "Invalid attribute type, expected string")

AttrValue_parse_bool(v) ==
    IF v.kind = "Bool" THEN Ok(v.bool)
    ELSE Error_new(v.span, "Invalid attribute type, expected boolean")

(***************************************************************************)
(* parse_name, parse_description, parse_doc (attributes.rs)                *)
(***************************************************************************)

NAME_MAX == 32
DESC_MAX == 100
DOC_MAX == 100

parse_name(val) ==
    LET span == AttrValue_span(val)
        s == AttrValue_parse_string(val)
    IN  IF ~s.ok THEN s
        ELSE IF chars_count(s.val) \in 1..NAME_MAX THEN Ok(s.val)
        ELSE Error_new(span, "Name must be between 1 and 32 characters")

parse_description(val) ==
    LET span == AttrValue_span(val)
        s == AttrValue_parse_string(val)
    IN  IF ~s.ok THEN s
        ELSE IF chars_count(s.val) \in 1..DESC_MAX THEN Ok(s.val)
        ELSE Error_new(span,
                       "Description must be between 1 and 100 characters")

\* attr.parse_meta(): the attribute's tokens as a Meta, or syn's error.
Attribute_parse_meta(attr) == attr.meta

\* The match arm of parse_doc: Ok(Meta::NameValue { path, lit: Lit::Str, .. })
\* with a single-segment path whose identifier is `doc`.
is_doc_meta(m) ==
    /\ m.ok
    /\ m.val.shape = "NameValue"
    /\ m.val.lit.kind = "Str"
    /\ Len(m.val.path) = 1
    /\ m.val.path[1] = K_doc

\* The loop of parse_doc: push the text and a newline for every doc attribute.
RECURSIVE parse_doc_loop(_, _, _)
parse_doc_loop(attrs, i, doc) ==
    IF i > Len(attrs) THEN doc
    ELSE LET m == Attribute_parse_meta(attrs[i])
         IN  IF is_doc_meta(m)
             THEN parse_doc_loop(attrs, i + 1, (doc \o m.val.lit.str) \o <<"\n">>)
             ELSE parse_doc_loop(attrs, i + 1, doc)

parse_doc(attrs, span) ==
    LET doc == trim(parse_doc_loop(attrs, 1, <<>>))
        n == chars_count(doc)
    IN  IF n \in 1..DOC_MAX THEN Ok(doc)
        ELSE IF n = 0
        THEN Error_new(span,
               "Description is required (documentation comment or 'desc' attribute)")
        ELSE Error_new(span,
               "Description must be between 1 and 100 characters")

(***************************************************************************)
(* find_attr (attributes.rs)                                               *)
(***************************************************************************)

\* path.get_ident(): the identifier of a single-segment path.
Path_get_ident(path) == IF Len(path) = 1 THEN Some(path[1]) ELSE None

RECURSIVE find_attr_loop(_, _, _)
find_attr_loop(attrs, i, name) ==
    IF i > Len(attrs) THEN None
    ELSE LET ident == Path_get_ident(attrs[i].path)
         IN  IF ident.some /\ ident.val = name THEN Some(attrs[i])
             ELSE find_attr_loop(attrs, i + 1, name)

find_attr(attrs, name) == find_attr_loop(attrs, 1, name)

(***************************************************************************)
(* NamedAttrs (attributes.rs)                                              *)
(***************************************************************************)

\* HashMap::new() and HashMap::insert: a map is a function on its key set.
HashMap_new == <<>>

\* Mutation of HashMap_insert: a key already present keeps its value.
HashMap_insert_keep_first(map, key, value) ==
    IF key \in DOMAIN map THEN map
    ELSE [k \in (DOMAIN map) \cup {key} |-> IF k = key THEN value ELSE map[k]]

HashMap_insert(map, key, value) ==
    [k \in (DOMAIN map) \cup {key} |-> IF k = key THEN value ELSE map[k]]

\* The loop over list.nested; `expected` is the joined string.
RECURSIVE NamedAttrs_parse_loop(_, _, _, _)
NamedAttrs_parse_loop(nested, i, expected, values) ==
    IF i > Len(nested) THEN Ok(values)
    ELSE LET n == nested[i] IN
         IF n.shape # "NameValue"
         THEN Error_new(n.span, "Expected named parameter")
         ELSE LET key == Path_get_ident(n.path) IN
              IF ~key.some
              THEN Error_new_fmt(n.pspan,
                       "Invalid parameter name (expected {})", expected)
              ELSE IF ~str_contains(expected, key.val)
              THEN Error_new_fmt(n.pspan,
                       "Invalid parameter name (expected {})", expected)
              ELSE NamedAttrs_parse_loop(nested, i + 1, expected,
                       HashMap_insert(values, key.val, n.lit))

NamedAttrs_parse(meta, expected) ==
    IF meta.shape # "List"
    THEN Error_new(meta.span, "Expected named parameters list")
    ELSE NamedAttrs_parse_loop(meta.nested, 1, join(expected), HashMap_new)

NamedAttrs_get(attrs, name) ==
    IF name \in DOMAIN attrs THEN Some(attrs[name]) ELSE None

(***************************************************************************)
(* TypeAttribute and FieldAttribute (attributes.rs)                        *)
(***************************************************************************)

\* `opt.map(f).transpose()?` : None stays None, Some(v) becomes f(v) with
\* its Ok value wrapped in Some.
Option_map_transpose_name(opt) ==
    IF ~opt.some THEN Ok(None)
    ELSE LET r == parse_name(opt.val)
         IN  IF r.ok THEN Ok(Some(r.val)) ELSE r

Option_map_transpose_description(opt) ==
    IF ~opt.some THEN Ok(None)
    ELSE LET r == parse_description(opt.val)
         IN  IF r.ok THEN Ok(Some(r.val)) ELSE r

\* Mutation of TypeAttribute_default_permission: a literal that is not a
\* boolean falls back to the default (`.and_then(|v| v.parse_bool().ok())
\* .unwrap_or(true)`).
TypeAttribute_default_permission_lenient(attrs) ==
    LET opt == NamedAttrs_get(attrs, K_default_permission)
    IN  IF opt.some /\ AttrValue_parse_bool(opt.val).ok
        THEN AttrValue_parse_bool(opt.val)
        ELSE Ok(TRUE)

\* attrs.get("default_permission").map(|v| v.parse_bool()).unwrap_or(Ok(true))
TypeAttribute_default_permission(attrs) ==
    LET opt == NamedAttrs_get(attrs, K_default_permission)
    IN  IF opt.some THEN AttrValue_parse_bool(opt.val) ELSE Ok(TRUE)

TypeAttribute_expected == <<K_name, K_desc, K_default_permission>>

TypeAttribute_parse(attr) ==
    LET meta == Attribute_parse_meta(attr) IN
    IF ~meta.ok THEN meta ELSE
    LET attrs == NamedAttrs_parse(meta.val, TypeAttribute_expected) IN
    IF ~attrs.ok THEN attrs ELSE
    LET nameval == NamedAttrs_get(attrs.val, K_name) IN
    IF ~nameval.some
    THEN Error_new(attr.span, "Missing required attribute 'name'") ELSE
    LET name == parse_name(nameval.val) IN
    IF ~name.ok THEN name ELSE
    LET desc == Option_map_transpose_description(
                    NamedAttrs_get(attrs.val, K_desc)) IN
    IF ~desc.ok THEN desc ELSE
    LET default_permission == TypeAttribute_default_permission(attrs.val) IN
    IF ~default_permission.ok THEN default_permission ELSE
    Ok([name |-> name.val, desc |-> desc.val,
        default_permission |-> default_permission.val])

FieldAttribute_expected == <<K_rename, K_desc, K_channel_types>>

FieldAttribute_parse(attr) ==
    LET meta == Attribute_parse_meta(attr) IN
    IF ~meta.ok THEN meta ELSE
    LET attrs == NamedAttrs_parse(meta.val, FieldAttribute_expected) IN
    IF ~attrs.ok THEN attrs ELSE
    LET rename == Option_map_transpose_name(
                      NamedAttrs_get(attrs.val, K_rename)) IN
    IF ~rename.ok THEN rename ELSE
    LET desc == Option_map_transpose_description(
                    NamedAttrs_get(attrs.val, K_desc)) IN
    IF ~desc.ok THEN desc ELSE
    Ok([rename |-> rename.val, desc |-> desc.val])

\* #[derive(Default)]: both fields absent.
FieldAttribute_default == [rename |-> None, desc |-> None]

\* Mutation of FieldAttribute_name_default: the rename is ignored.
FieldAttribute_name_default_ignores_rename(self, default) == default

FieldAttribute_name_default(self, default) ==
    IF self.rename.some THEN self.rename.val ELSE default

(***************************************************************************)
(* crate::parse, as imported by command/subcommand/parse.rs                *)
(*   use crate::parse::{find_attr, parse_desc, parse_name, NamedAttrs};    *)
(* That module is not part of the source at hand; it is modelled from the  *)
(* component design of the specification (sections 4.1 to 4.3, 7), with    *)
(* the error names of its taxonomy.                                        *)
(***************************************************************************)

crate_parse_AttrValue_parse_string(v) ==
    IF v.kind = "Str" THEN Ok(v.str)
    ELSE Error_new_fmt(v.span, "InvalidAttributeType",
                       <<"s", "t", "r", "i", "n", "g">>)

crate_parse_AttrValue_parse_bool(v) ==
    IF v.kind = "Bool" THEN Ok(v.bool)
    ELSE Error_new_fmt(v.span, "InvalidAttributeType",
                       <<"b", "o", "o", "l", "e", "a", "n">>)

crate_parse_parse_name(val) ==
    LET s == crate_parse_AttrValue_parse_string(val)
    IN  IF ~s.ok THEN s
        ELSE IF Len(s.val) \in 1..32 THEN Ok(s.val)
        ELSE Error_new(val.span, "NameLengthOutOfRange")

crate_parse_parse_desc(val) ==
    LET s == crate_parse_AttrValue_parse_string(val)
    IN  IF ~s.ok THEN s
        ELSE IF Len(s.val) \in 1..100 THEN Ok(s.val)
        ELSE Error_new(val.span, "DescriptionLengthOutOfRange")

crate_parse_find_attr(attrs, name) ==
    LET hits == {i \in 1..Len(attrs) : attrs[i].path = <<name>>}
    IN  IF hits = {} THEN None
        ELSE Some(attrs[CHOOSE i \in hits : \A j \in hits : i <= j])

RECURSIVE crate_parse_NamedAttrs_parse_loop(_, _, _, _)
crate_parse_NamedAttrs_parse_loop(nested, i, expected, values) ==
    IF i > Len(nested) THEN Ok(values)
    ELSE LET n == nested[i] IN
         IF n.shape # "NameValue" \/ Len(n.path) # 1
         THEN Error_new(n.span, "ExpectedNamedParameter")
         ELSE IF n.path[1] \notin {expected[k] : k \in 1..Len(expected)}
         THEN Error_new_fmt(n.pspan, "UnrecognizedParameter", join(expected))
         ELSE crate_parse_NamedAttrs_parse_loop(nested, i + 1, expected,
                  [k \in (DOMAIN values) \cup {n.path[1]} |->
                      IF k = n.path[1] THEN n.lit ELSE values[k]])

crate_parse_NamedAttrs_parse(meta, expected) ==
    IF meta.shape # "List"
    THEN Error_new(meta.span, "ExpectedNamedList")
    ELSE crate_parse_NamedAttrs_parse_loop(meta.nested, 1, expected, <<>>)

crate_parse_NamedAttrs_get(attrs, name) ==
    IF name \in DOMAIN attrs THEN Some(attrs[name]) ELSE None

(***************************************************************************)
(* VariantAttribute, ParsedVariant, TypeAttribute                          *)
(* (command/subcommand/parse.rs)                                           *)
(***************************************************************************)

VariantAttribute_parse(attr) ==
    LET meta == Attribute_parse_meta(attr) IN
    IF ~meta.ok THEN meta ELSE
    LET attrs == crate_parse_NamedAttrs_parse(meta.val, <<K_name>>) IN
    IF ~attrs.ok THEN attrs ELSE
    LET nameval == crate_parse_NamedAttrs_get(attrs.val, K_name) IN
    IF ~nameval.some
    THEN Error_new(attr.span, "Missing required attribute 'name'") ELSE
    LET name == crate_parse_parse_name(nameval.val) IN
    IF ~name.ok THEN name ELSE
    Ok([name |-> name.val])

\* Mutation of ParsedVariant_from_variant: the #[command] attribute is looked
\* for before the field's type is checked.
ParsedVariant_from_variant_attribute_first(variant) ==
    LET span == variant.span IN
    IF variant.fields # "Unnamed"
    THEN Error_new(span, "Variant must be an unnamed variant") ELSE
    IF Len(variant.unnamed) # 1
    THEN Error_new(span, "Variant must have exactly one unnamed field") ELSE
    LET ty == variant.unnamed[1]
        found == crate_parse_find_attr(variant.attrs, K_command) IN
    IF ~found.some
    THEN Error_new(span, "Missing required #[command(..)] attribute") ELSE
    LET attribute == VariantAttribute_parse(found.val) IN
    IF ~attribute.ok THEN attribute ELSE
    IF ty.kind # "Path"
    THEN Error_new(ty.span, "Unsupported type, expected a type path") ELSE
    Ok([span |-> span, ident |-> variant.ident,
        attribute |-> attribute.val, inner |-> ty.ty])

\* A variant: fields is "Unnamed", "Named" or "Unit"; unnamed is the list of
\* its unnamed fields, each with the kind of its type ("Path" for a type
\* path), the type itself and the type's span.
ParsedVariant_from_variant(variant) ==
    LET span == variant.span IN
    IF variant.fields # "Unnamed"
    THEN Error_new(span, "Variant must be an unnamed variant") ELSE
    IF Len(variant.unnamed) # 1
    THEN Error_new(span, "Variant must have exactly one unnamed field") ELSE
    LET ty == variant.unnamed[1] IN
    IF ty.kind # "Path"
    THEN Error_new(ty.span, "Unsupported type, expected a type path") ELSE
    LET found == crate_parse_find_attr(variant.attrs, K_command) IN
    IF ~found.some
    THEN Error_new(span, "Missing required #[command(..)] attribute") ELSE
    LET attribute == VariantAttribute_parse(found.val) IN
    IF ~attribute.ok THEN attribute ELSE
    Ok([span |-> span, ident |-> variant.ident,
        attribute |-> attribute.val, inner |-> ty.ty])

\* Mutation of collect_from_variant: the parsed variants are collected in
\* reverse order.
RECURSIVE collect_from_variant_reversed(_, _, _)
collect_from_variant_reversed(variants, i, acc) ==
    IF i > Len(variants) THEN Ok(acc)
    ELSE LET r == ParsedVariant_from_variant(variants[i])
         IN  IF ~r.ok THEN r
             ELSE collect_from_variant_reversed(variants, i + 1,
                                                <<r.val>> \o acc)

\* `.map(Self::from_variant).collect()` into Result<Vec<_>>: the first Err
\* ends the iteration and is the result.
RECURSIVE collect_from_variant(_, _, _)
collect_from_variant(variants, i, acc) ==
    IF i > Len(variants) THEN Ok(acc)
    ELSE LET r == ParsedVariant_from_variant(variants[i])
         IN  IF ~r.ok THEN r
             ELSE collect_from_variant(variants, i + 1, Append(acc, r.val))

ParsedVariant_from_variants(variants, input_span) ==
    IF variants = <<>>
    THEN Error_new(input_span, "Enum must have at least one variant")
    ELSE collect_from_variant(variants, 1, <<>>)

\* attrs.get("default_permission").map(|v| v.parse_bool())
\*      .transpose()?.unwrap_or(true)
SubcommandTypeAttribute_default_permission(attrs) ==
    LET opt == crate_parse_NamedAttrs_get(attrs, K_default_permission)
        transposed == IF ~opt.some THEN Ok(None)
                      ELSE LET b == crate_parse_AttrValue_parse_bool(opt.val)
                           IN  IF b.ok THEN Ok(Some(b.val)) ELSE b
    IN  IF ~transposed.ok THEN transposed
        ELSE IF transposed.val.some THEN Ok(transposed.val.val)
        ELSE Ok(TRUE)

SubcommandTypeAttribute_parse(attr) ==
    LET meta == Attribute_parse_meta(attr) IN
    IF ~meta.ok THEN meta ELSE
    LET attrs == crate_parse_NamedAttrs_parse(meta.val,
                     <<K_name, K_desc, K_default_permission>>) IN
    IF ~attrs.ok THEN attrs ELSE
    LET nameval == crate_parse_NamedAttrs_get(attrs.val, K_name) IN
    IF ~nameval.some
    THEN Error_new(attr.span, "Missing required attribute 'name'") ELSE
    LET name == crate_parse_parse_name(nameval.val) IN
    IF ~name.ok THEN name ELSE
    LET descval == crate_parse_NamedAttrs_get(attrs.val, K_desc)
        desc == IF ~descval.some THEN Ok(None)
                ELSE LET d == crate_parse_parse_desc(descval.val)
                     IN  IF d.ok THEN Ok(Some(d.val)) ELSE d IN
    IF ~desc.ok THEN desc ELSE
    LET default_permission ==
            SubcommandTypeAttribute_default_permission(attrs.val) IN
    IF ~default_permission.ok THEN default_permission ELSE
    Ok([name |-> name.val, desc |-> desc.val,
        default_permission |-> default_permission.val])

(***************************************************************************)
(* The struct side of the shape normalizer and the generated parser.  The  *)
(* modules command/model/{parse,command_model}.rs are declared by          *)
(* command/model/mod.rs but are not part of the source at hand; they are   *)
(* modelled from section 4.6 of the specification and from the test        *)
(* tests/command_model.rs, on top of FieldAttribute of attributes.rs.      *)
(***************************************************************************)

StructField_from_field(field) ==
    LET found == find_attr(field.attrs, K_command)
        attributes == IF found.some THEN FieldAttribute_parse(found.val)
                      ELSE Ok(FieldAttribute_default)
    IN  IF ~attributes.ok THEN attributes
        ELSE Ok([ident |-> field.ident, attributes |-> attributes.val,
                 ty |-> field.ty])

RECURSIVE collect_from_field(_, _, _)
collect_from_field(fields, i, acc) ==
    IF i > Len(fields) THEN Ok(acc)
    ELSE LET r == StructField_from_field(fields[i])
         IN  IF ~r.ok THEN r
             ELSE collect_from_field(fields, i + 1, Append(acc, r.val))

\* decl.fields is "Named", "Unit" or "Unnamed" (a tuple struct).
StructField_from_fields(decl) ==
    IF decl.fields = "Unit" THEN Ok(<<>>)
    ELSE IF decl.fields = "Named" THEN collect_from_field(decl.named, 1, <<>>)
    ELSE Error_new(decl.span, "UnsupportedShape")

\* The name of the option a parsed field stands for.
option_name(field) ==
    FieldAttribute_name_default(field.attributes, field.ident)

option_names(fields) == [i \in 1..Len(fields) |-> option_name(fields[i])]

\* The generated from_interaction: every supplied option is matched against
\* the option names of the fields; a field takes the value of the option that
\* bears its name.  Options have distinct names.
CommandModel_from_interaction(fields, options) ==
    [i \in 1..Len(fields) |->
        LET hits == {j \in 1..Len(options) :
                        options[j].name = option_name(fields[i])}
        IN  IF hits = {} THEN None
            ELSE Some(options[CHOOSE j \in hits : TRUE].value)]

(***************************************************************************)
(* Inputs: the syntax of declarations                                      *)
(***************************************************************************)

MaxEntries == 2    \* entries of one #[command(...)] list
MaxDocAttrs == 3   \* attributes scanned by parse_doc
MaxVariants == 2   \* variants of an enum
MaxFields == 3     \* fields of a struct
MaxOver == 1       \* how far a string may exceed a length limit

Rep(c, n) == [i \in 1..n |-> c]

\* Source positions: what the position is of, and the indices of the
\* variant or field, of the attribute on it and of the entry in its list.
Span(tag, v, a, i) == <<tag, v, a, i>>

Lit_Str(s) == [kind |-> "Str", str |-> s, bool |-> FALSE,
               span |-> Span("lit", 0, 0, 0)]
Lit_Bool(b) == [kind |-> "Bool", str |-> <<>>, bool |-> b,
                span |-> Span("lit", 0, 0, 0)]
Lit_Int == [kind |-> "Int", str |-> <<>>, bool |-> FALSE,
            span |-> Span("lit", 0, 0, 0)]
NoLit == [kind |-> "None", str |-> <<>>, bool |-> FALSE,
          span |-> Span("none", 0, 0, 0)]

K_default == <<"d", "e", "f", "a", "u", "l", "t">>
K_foo == <<"f", "o", "o">>
K_member == <<"m", "e", "m", "b", "e", "r">>
K_user == <<"u", "s", "e", "r">>
K_text == <<"t", "e", "x", "t">>
K_number == <<"n", "u", "m", "b", "e", "r">>
K_test == <<"t", "e", "s", "t">>

NV(key, lit) == [shape |-> "NameValue", path |-> <<key>>, lit |-> lit]

\* The entries a parameter list is made of.
EntryPool ==
    << NV(K_name, Lit_Str(<<"a">>)),
       NV(K_name, Lit_Str(Rep("U+00E9", NAME_MAX))),
       NV(K_name, Lit_Str(Rep("a", NAME_MAX + 1))),
       NV(K_name, Lit_Str(<<>>)),
       NV(K_name, Lit_Bool(TRUE)),
       NV(K_desc, Lit_Str(<<"a", " ", "b">>)),
       NV(K_desc, Lit_Str(Rep("a", DESC_MAX + 1))),
       NV(K_default_permission, Lit_Bool(FALSE)),
       NV(K_default_permission, Lit_Bool(TRUE)),
       NV(K_default_permission, Lit_Str(<<"a">>)),
       NV(K_rename, Lit_Str(<<"b">>)),
       NV(K_rename, Lit_Str(Rep("a", NAME_MAX + 1))),
       NV(K_channel_types, Lit_Str(<<"a">>)),
       NV(K_default, Lit_Bool(TRUE)),
       NV(K_foo, Lit_Str(<<"a">>)),
       [shape |-> "Path", path |-> <<K_name>>, lit |-> NoLit],
       [shape |-> "NameValue", path |-> <<<<"a">>, K_name>>,
        lit |-> Lit_Str(<<"a">>)] >>

Nested(e, v, a, i) ==
    [shape |-> e.shape, path |-> e.path,
     lit |-> [e.lit EXCEPT !.span = Span("lit", v, a, i)],
     span |-> Span("nested", v, a, i), pspan |-> Span("path", v, a, i)]

Place(entries, v, a) ==
    [i \in 1..Len(entries) |-> Nested(entries[i], v, a, i)]

\* #[name(entries)], #[name], #[name = lit] and an attribute whose tokens
\* syn cannot parse as a Meta.
ListAttr(name, entries, v, a) ==
    [path |-> name, span |-> Span("attr", v, a, 0),
     meta |-> Ok([shape |-> "List", path |-> name,
                  nested |-> Place(entries, v, a), lit |-> NoLit,
                  span |-> Span("meta", v, a, 0)])]

PathAttr(name, v, a) ==
    [path |-> name, span |-> Span("attr", v, a, 0),
     meta |-> Ok([shape |-> "Path", path |-> name, nested |-> <<>>,
                  lit |-> NoLit, span |-> Span("meta", v, a, 0)])]

NameValueAttr(name, lit, v, a) ==
    [path |-> name, span |-> Span("attr", v, a, 0),
     meta |-> Ok([shape |-> "NameValue", path |-> name, nested |-> <<>>,
                  lit |-> [lit EXCEPT !.span = Span("lit", v, a, 0)],
                  span |-> Span("meta", v, a, 0)])]

SynErrAttr(name, v, a) ==
    [path |-> name, span |-> Span("attr", v, a, 0),
     meta |-> Error_new(Span("attr", v, a, 0), "syn: expected a meta item")]

\* A choice of at most k elements of a pool, in order, and the sequence of
\* the elements chosen.
Choices(pool, k) == UNION {[1..m -> 1..Len(pool)] : m \in 0..k}

Pick(pool, c) == [i \in 1..Len(c) |-> pool[c[i]]]

\* The #[command ...] attributes that are no parameter list.
OddCommandAttrs ==
    << PathAttr(<<K_command>>, 0, 1),
       NameValueAttr(<<K_command>>, Lit_Str(<<"a">>), 0, 1),
       SynErrAttr(<<K_command>>, 0, 1) >>

\* The #[command ...] attribute of a choice of entries, or an odd one.
CommandAttr(c, odd) ==
    IF odd = 0 THEN ListAttr(<<K_command>>, Pick(EntryPool, c), 0, 1)
    ELSE OddCommandAttrs[odd]

\* The inputs of the attribute parsers: every list of entries, and the odd
\* attributes (with no entries chosen).
CommandAttrChoices ==
    {<<c, odd>> \in Choices(EntryPool, MaxEntries) \X (0..Len(OddCommandAttrs)) :
        odd # 0 => c = <<>>}

ExpectedSets == {TypeAttribute_expected, FieldAttribute_expected, <<K_name>>}

\* The declared identifiers name_default is tried on.
IdentPool ==
    {K_user, K_text, K_number}
    \cup {Rep("a", n) : n \in {1} \cup (NAME_MAX..(NAME_MAX + MaxOver))}

\* The literals parse_name and parse_description are tried on.
StrLens ==
    (0..2) \cup ((NAME_MAX - 1)..(NAME_MAX + MaxOver))
           \cup ((DESC_MAX - 1)..(DESC_MAX + MaxOver))

LitPool ==
    {[Lit_Str(Rep(c, n)) EXCEPT !.span = Span("lit", 0, 1, 1)] :
        c \in {"a", "U+00E9"}, n \in StrLens}
    \cup {[l EXCEPT !.span = Span("lit", 0, 1, 1)] :
            l \in {Lit_Bool(TRUE), Lit_Bool(FALSE), Lit_Int}}

\* An attribute moved to attribute position a of variant or field v.
RePlaceSpan(sp, v, a) == Span(sp[1], v, a, sp[4])

RePlaceAttr(attr, v, a) ==
    [path |-> attr.path,
     span |-> RePlaceSpan(attr.span, v, a),
     meta |-> IF attr.meta.ok
              THEN Ok([shape |-> attr.meta.val.shape,
                       path |-> attr.meta.val.path,
                       nested |-> Place(attr.meta.val.nested, v, a),
                       lit |-> [attr.meta.val.lit EXCEPT
                                   !.span = RePlaceSpan(@, v, a)],
                       span |-> RePlaceSpan(attr.meta.val.span, v, a)])
              ELSE Error_new(RePlaceSpan(attr.meta.err.span, v, a),
                             attr.meta.err.msg)]

RePlaceAttrs(attrs, v) ==
    [a \in 1..Len(attrs) |-> RePlaceAttr(attrs[a], v, a)]

\* The attributes a declaration's documentation is read from.
DocPool ==
    << NameValueAttr(<<K_doc>>, Lit_Str(<<"a">>), 0, 0),
       NameValueAttr(<<K_doc>>, Lit_Str(<<" ", "b">>), 0, 0),
       NameValueAttr(<<K_doc>>, Lit_Str(<<>>), 0, 0),
       NameValueAttr(<<K_doc>>, Lit_Str(Rep("a", DOC_MAX - 1)), 0, 0),
       NameValueAttr(<<K_doc>>, Lit_Str(Rep("U+00E9", DOC_MAX)), 0, 0),
       NameValueAttr(<<K_doc>>, Lit_Str(Rep("a", DOC_MAX + 1)), 0, 0),
       NameValueAttr(<<K_doc>>, Lit_Int, 0, 0),
       NameValueAttr(<<<<"a">>, K_doc>>, Lit_Str(<<"a">>), 0, 0),
       NameValueAttr(<<K_foo>>, Lit_Str(<<"a">>), 0, 0),
       ListAttr(<<K_doc>>, <<[shape |-> "Path", path |-> <<K_foo>>,
                              lit |-> NoLit]>>, 0, 0),
       ListAttr(<<K_command>>, <<NV(K_desc, Lit_Str(<<"a">>))>>, 0, 0),
       SynErrAttr(<<K_doc>>, 0, 0) >>

Ty(kind, name) == [kind |-> kind, ty |-> name, span |-> Span("type", 0, 0, 0)]

CmdName(lit) == ListAttr(<<K_command>>, <<NV(K_name, lit)>>, 0, 0)

Variant(fields, unnamed, attrs) ==
    [fields |-> fields, unnamed |-> unnamed, attrs |-> attrs]

\* The variants an enum is made of.
VariantPool ==
    << Variant("Unnamed", <<Ty("Path", "A")>>, <<CmdName(Lit_Str(<<"a">>))>>),
       Variant("Unnamed", <<Ty("Path", "B")>>,
               <<NameValueAttr(<<K_doc>>, Lit_Str(<<"a">>), 0, 0),
                 CmdName(Lit_Str(Rep("U+00E9", NAME_MAX)))>>),
       Variant("Unnamed", <<Ty("Path", "A"), Ty("Path", "B")>>,
               <<CmdName(Lit_Str(<<"a">>))>>),
       Variant("Unnamed", <<Ty("Reference", "A"), Ty("Path", "B")>>, <<>>),
       Variant("Unit", <<>>, <<>>),
       Variant("Named", <<>>, <<CmdName(Lit_Str(<<"a">>))>>),
       Variant("Unnamed", <<>>, <<CmdName(Lit_Str(<<"a">>))>>),
       Variant("Unnamed", <<Ty("Reference", "A")>>,
               <<CmdName(Lit_Str(<<"a">>))>>),
       Variant("Unnamed", <<Ty("Tuple", "A")>>, <<>>),
       Variant("Unnamed", <<Ty("Path", "A")>>, <<>>),
       Variant("Unnamed", <<Ty("Path", "A")>>,
               <<CmdName(Lit_Str(Rep("a", NAME_MAX + 1)))>>),
       Variant("Unnamed", <<Ty("Path", "A")>>,
               <<ListAttr(<<K_command>>, <<NV(K_foo, Lit_Str(<<"a">>))>>, 0, 0)>>),
       Variant("Unnamed", <<Ty("Path", "A")>>,
               <<PathAttr(<<K_command>>, 0, 0)>>) >>

\* Variant t at position v of its enum; the identifiers of an enum differ.
PlaceVariant(t, v) ==
    [span |-> Span("variant", v, 0, 0),
     ident |-> Rep("V", v),
     fields |-> t.fields,
     unnamed |-> [i \in 1..Len(t.unnamed) |->
                     [t.unnamed[i] EXCEPT !.span = Span("type", v, 0, i)]],
     attrs |-> RePlaceAttrs(t.attrs, v)]

PlaceVariants(s) == [v \in 1..Len(s) |-> PlaceVariant(s[v], v)]

input_span == Span("input", 0, 0, 0)

Field(ident, ty, attrs) == [ident |-> ident, ty |-> ty, attrs |-> attrs]

\* The fields a struct is made of.
FieldPool ==
    << Field(K_user, "ResolvedUser",
             <<ListAttr(<<K_command>>,
                        <<NV(K_rename, Lit_Str(K_member)),
                          NV(K_desc, Lit_Str(K_test))>>, 0, 0)>>),
       Field(K_text, "String", <<>>),
       Field(K_number, "Option<i64>", <<>>),
       Field(Rep("a", NAME_MAX + 1), "String", <<>>),
       Field(<<"b">>, "String",
             <<NameValueAttr(<<K_doc>>, Lit_Str(<<"a">>), 0, 0),
               ListAttr(<<K_command>>, <<NV(K_desc, Lit_Str(<<"a">>))>>, 0, 0)>>),
       Field(<<"a">>, "String",
             <<ListAttr(<<K_command>>,
                        <<NV(K_rename, Lit_Str(Rep("a", NAME_MAX + 1)))>>,
                        0, 0)>>),
       Field(<<"c">>, "String", <<CmdName(Lit_Str(<<"a">>))>>) >>

PlaceField(f, v) ==
    [ident |-> f.ident, ty |-> f.ty, attrs |-> RePlaceAttrs(f.attrs, v)]

Distinct(fs) ==
    \A i, j \in 1..Len(fs) : i # j => fs[i].ident # fs[j].ident

NamedStruct(fs) ==
    [fields |-> "Named", span |-> input_span,
     named |-> [v \in 1..Len(fs) |-> PlaceField(fs[v], v)]]

\* A unit struct and a tuple struct.
OtherStructs ==
    {[fields |-> "Unit", span |-> input_span, named |-> <<>>],
     [fields |-> "Unnamed", span |-> input_span, named |-> <<>>]}

\* The fields of the struct the generated parser is run on.
DemoFields == SubSeq(FieldPool, 1, 3)

Option(name, value) == [name |-> name, value |-> value]

OptionPool ==
    << Option(K_member, "User(123)"),
       Option(K_text, "String(hello world)"),
       Option(K_number, "Integer(42)"),
       Option(K_user, "User(456)") >>

DistinctNames(s) == \A i, j \in 1..Len(s) : i # j => s[i].name # s[j].name

(***************************************************************************)
(* The state machine: one action per operation, run on one declaration     *)
(***************************************************************************)

Init ==
    /\ op = "idle"
    /\ input = <<>>
    /\ result = <<>>

\* No expansion is under way.
Idle == op = "idle"

Call(name, in, out) ==
    /\ op' = name
    /\ input' = in
    /\ result' = out

Call_parse_name ==
    /\ Idle
    /\ \E lit \in LitPool : Call("parse_name", lit, parse_name(lit))

Call_parse_description ==
    /\ Idle
    /\ \E lit \in LitPool :
           Call("parse_description", lit, parse_description(lit))

Call_parse_doc ==
    /\ Idle
    /\ \E c \in Choices(DocPool, MaxDocAttrs) :
           LET attrs == RePlaceAttrs(Pick(DocPool, c), 0)
           IN  Call("parse_doc", attrs, parse_doc(attrs, input_span))

Call_NamedAttrs_parse ==
    /\ Idle
    /\ \E x \in CommandAttrChoices, expected \in ExpectedSets :
           LET attr == CommandAttr(x[1], x[2])
           IN  /\ attr.meta.ok
               /\ Call("NamedAttrs_parse",
                       [meta |-> attr.meta.val, expected |-> expected],
                       NamedAttrs_parse(attr.meta.val, expected))

Call_TypeAttribute_parse ==
    /\ Idle
    /\ \E x \in CommandAttrChoices :
           LET attr == CommandAttr(x[1], x[2])
           IN  Call("TypeAttribute_parse", attr, TypeAttribute_parse(attr))

Call_FieldAttribute_parse ==
    /\ Idle
    /\ \E x \in CommandAttrChoices :
           LET attr == CommandAttr(x[1], x[2])
           IN  Call("FieldAttribute_parse", attr, FieldAttribute_parse(attr))

\* The option name of a field: its attribute, parsed or the default of a field
\* without attribute, resolves the name against the declared identifier.
Call_name_default ==
    /\ Idle
    /\ \E x \in CommandAttrChoices, bare \in BOOLEAN, ident \in IdentPool :
           LET self == IF bare THEN Ok(FieldAttribute_default)
                       ELSE FieldAttribute_parse(CommandAttr(x[1], x[2]))
           IN  /\ bare => x = <<<<>>, 0>>
               /\ self.ok
               /\ Call("name_default",
                       [self |-> self.val, default |-> ident],
                       FieldAttribute_name_default(self.val, ident))

Call_VariantAttribute_parse ==
    /\ Idle
    /\ \E x \in CommandAttrChoices :
           LET attr == CommandAttr(x[1], x[2])
           IN  Call("VariantAttribute_parse", attr,
                    VariantAttribute_parse(attr))

Call_SubcommandTypeAttribute_parse ==
    /\ Idle
    /\ \E x \in CommandAttrChoices :
           LET attr == CommandAttr(x[1], x[2])
           IN  Call("SubcommandTypeAttribute_parse", attr,
                    SubcommandTypeAttribute_parse(attr))

Call_from_variants ==
    /\ Idle
    /\ \E c \in Choices(VariantPool, MaxVariants) :
           LET variants == PlaceVariants(Pick(VariantPool, c))
           IN  Call("from_variants", variants,
                    ParsedVariant_from_variants(variants, input_span))

\* The struct is normalized and the option names of its fields are resolved.
FromFields(decl) ==
    LET r == StructField_from_fields(decl)
    IN  Call("from_fields", decl,
             IF r.ok THEN Ok([fields |-> r.val, names |-> option_names(r.val)])
             ELSE r)

Call_from_fields ==
    /\ Idle
    /\ \/ \E c \in Choices(FieldPool, MaxFields) :
             /\ Distinct(Pick(FieldPool, c))
             /\ FromFields(NamedStruct(Pick(FieldPool, c)))
       \/ \E decl \in OtherStructs : FromFields(decl)

Call_from_interaction ==
    /\ Idle
    /\ \E c \in Choices(DemoFields, MaxFields),
          o \in Choices(OptionPool, MaxFields) :
           LET decl == NamedStruct(Pick(DemoFields, c))
               options == Pick(OptionPool, o)
               r == StructField_from_fields(decl)
           IN  /\ Distinct(Pick(DemoFields, c))
               /\ DistinctNames(options)
               /\ Call("from_interaction",
                       [decl |-> decl, options |-> options],
                       IF r.ok
                       THEN Ok(CommandModel_from_interaction(r.val, options))
                       ELSE r)

\* The expansion of one declaration is over; the next one starts afresh.
NextDeclaration ==
    /\ op # "idle"
    /\ op' = "idle"
    /\ input' = <<>>
    /\ result' = <<>>

Next ==
    \/ Call_parse_name
    \/ Call_parse_description
    \/ Call_parse_doc
    \/ Call_NamedAttrs_parse
    \/ Call_TypeAttribute_parse
    \/ Call_FieldAttribute_parse
    \/ Call_name_default
    \/ Call_VariantAttribute_parse
    \/ Call_SubcommandTypeAttribute_parse
    \/ Call_from_variants
    \/ Call_from_fields
    \/ Call_from_interaction
    \/ NextDeclaration

Spec == Init /\ [][Next]_vars

(***************************************************************************)
(* Properties                                                              *)
(***************************************************************************)

\* The error taxonomy of the specification, by message of the source.
ErrorKind(msg) ==
    CASE msg = "Expected named parameters list" -> "ExpectedNamedList"
      [] msg = "Expected named parameter" -> "ExpectedNamedParameter"
      [] msg = "Invalid parameter name (expected {})" -> "UnrecognizedParameter"
      [] msg \in {"Invalid attribute type, expected string",
                  "Invalid attribute type, expected boolean"}
            -> "InvalidAttributeType"
      [] msg = "Name must be between 1 and 32 characters"
            -> "NameLengthOutOfRange"
      [] msg = "Description must be between 1 and 100 characters"
            -> "DescriptionLengthOutOfRange"
      [] msg \in {"Missing required attribute 'name'",
                  "Missing required #[command(..)] attribute"}
            -> "MissingRequiredAttribute"
      [] msg = "Description is required (documentation comment or 'desc' attribute)"
            -> "DescriptionRequired"
      [] msg = "Enum must have at least one variant" -> "EmptyEnum"
      [] msg \in {"Variant must be an unnamed variant",
                  "Variant must have exactly one unnamed field"}
            -> "InvalidVariantShape"
      [] msg = "Unsupported type, expected a type path"
            -> "UnsupportedFieldType"
      [] OTHER -> msg

Fails(r, kind) == ~r.ok /\ ErrorKind(r.err.msg) = kind

FailsAt(r, kind, span) == Fails(r, kind) /\ r.err.span = span

Max(S) == CHOOSE x \in S : \A y \in S : y <= x
Min(S) == CHOOSE x \in S : \A y \in S : x <= y

\* The positions of the entries of a list that bear key k.
EntriesOf(nested, k) ==
    {i \in 1..Len(nested) :
        nested[i].shape = "NameValue" /\ nested[i].path = <<k>>}

\* Every entry of the list is an `identifier = literal` pair.
AllPairs(nested) ==
    \A i \in 1..Len(nested) :
        nested[i].shape = "NameValue" /\ Len(nested[i].path) = 1

KeysOf(nested) == {nested[i].path[1] : i \in 1..Len(nested)}

Elems(seq) == {seq[i] : i \in 1..Len(seq)}

\* C4: parse_name on a string literal returns the string unchanged exactly
\* when it has 1 to 32 Unicode scalar values and fails with the name-length
\* error otherwise; on a literal that is not a string it fails with the
\* invalid-attribute-type error.
C4_parse_name ==
    op = "parse_name" =>
        /\ (input.kind = "Str" /\ Len(input.str) \in 1..32)
              => result = Ok(input.str)
        /\ (input.kind = "Str" /\ Len(input.str) \notin 1..32)
              => FailsAt(result, "NameLengthOutOfRange", input.span)
        /\ input.kind # "Str"
              => FailsAt(result, "InvalidAttributeType", input.span)

\* A name of 32 scalar values that takes more than 32 bytes is accepted.
C4_witness ==
    /\ op = "parse_name"
    /\ input.kind = "Str"
    /\ Len(input.str) = 32
    /\ str_len(input.str) > 32
    /\ result.ok

\* The documentation lines of an attribute list, as the claim C5 words them.
IsDocLine(attr) ==
    /\ attr.meta.ok
    /\ attr.meta.val.shape = "NameValue"
    /\ attr.meta.val.path = <<K_doc>>
    /\ attr.meta.val.lit.kind = "Str"

DocLines(attrs) ==
    LET lines == SelectSeq(attrs, IsDocLine)
    IN  [i \in 1..Len(lines) |-> lines[i].meta.val.lit.str]

RECURSIVE EachFollowedByNewline(_)
EachFollowedByNewline(lines) ==
    IF lines = <<>> THEN <<>>
    ELSE Head(lines) \o <<"\n">> \o EachFollowedByNewline(Tail(lines))

\* s without its leading and trailing whitespace.
Trimmed(s) ==
    LET solid == {i \in 1..Len(s) : s[i] \notin {" ", "\n"}}
    IN  IF solid = {} THEN <<>> ELSE SubSeq(s, Min(solid), Max(solid))

DocText(attrs) == Trimmed(EachFollowedByNewline(DocLines(attrs)))

\* C5: parse_doc returns D, the trimmed concatenation of the doc lines each
\* followed by a newline, when D has 1 to 100 characters; it fails with the
\* description-required error exactly when D is empty and with the
\* description-length error exactly when D has more than 100 characters.
\* Three doc lines yield the lines joined by newlines, trimmed.
C5_parse_doc ==
    op = "parse_doc" =>
        LET D == DocText(input) IN
        /\ Len(D) \in 1..100 => result = Ok(D)
        /\ Len(D) = 0 <=> FailsAt(result, "DescriptionRequired", input_span)
        /\ Len(D) > 100
              <=> FailsAt(result, "DescriptionLengthOutOfRange", input_span)
        /\ (Len(input) = 3 /\ Len(DocLines(input)) = 3 /\ result.ok)
              => LET l == DocLines(input)
                 IN  result.val =
                        Trimmed(l[1] \o <<"\n">> \o l[2] \o <<"\n">> \o l[3])

\* Three documentation lines give a description that spans three lines.
C5_witness ==
    /\ op = "parse_doc"
    /\ Len(input) = 3
    /\ Len(DocLines(input)) = 3
    /\ result.ok
    /\ Cardinality({i \in 1..Len(result.val) : result.val[i] = "\n"}) = 2

\* The lists obtained by reordering the entries of a list.
Reorderings(nested) ==
    {[i \in 1..Len(nested) |-> nested[p[i]]] :
        p \in {q \in [1..Len(nested) -> 1..Len(nested)] :
                  \A i, j \in 1..Len(nested) : q[i] = q[j] => i = j}}

\* C9: after NamedAttrs::parse succeeds, get(k) is the literal of the last
\* entry with key k, and nothing when no entry has key k; for a list with
\* distinct keys the lookups do not depend on the order of the entries.
C9_last_wins ==
    (op = "NamedAttrs_parse" /\ result.ok) =>
        LET nested == input.meta.nested
            keys == KeysOf(nested) \cup Elems(input.expected)
        IN  /\ \A k \in keys :
                  NamedAttrs_get(result.val, k) =
                     IF EntriesOf(nested, k) = {} THEN None
                     ELSE Some(nested[Max(EntriesOf(nested, k))].lit)
            /\ Cardinality(KeysOf(nested)) = Len(nested) =>
                  \A other \in Reorderings(nested) :
                      LET r == NamedAttrs_parse(
                                  [input.meta EXCEPT !.nested = other],
                                  input.expected)
                      IN  /\ r.ok
                          /\ \A k \in keys :
                                NamedAttrs_get(r.val, k) =
                                   NamedAttrs_get(result.val, k)

\* A key is given twice with different literals and the list is accepted.
C9_witness ==
    /\ op = "NamedAttrs_parse"
    /\ result.ok
    /\ Len(input.meta.nested) = 2
    /\ input.meta.nested[1].path = input.meta.nested[2].path
    /\ input.meta.nested[1].lit.kind # input.meta.nested[2].lit.kind

LastLit(nested, k) == nested[Max(EntriesOf(nested, k))].lit

NameBad(lit) == lit.kind # "Str" \/ Len(lit.str) \notin 1..32
DescBad(lit) == lit.kind # "Str" \/ Len(lit.str) \notin 1..100

\* The stages of a type attribute before default_permission pass: the list
\* is accepted, `name` is given and valid, `desc` is valid if given.
EarlierStagesPass(attr, table) ==
    /\ attr.meta.ok
    /\ table.ok
    /\ EntriesOf(attr.meta.val.nested, K_name) # {}
    /\ ~NameBad(LastLit(attr.meta.val.nested, K_name))
    /\ EntriesOf(attr.meta.val.nested, K_desc) # {}
          => ~DescBad(LastLit(attr.meta.val.nested, K_desc))

DefaultPermissionResolved(attr, table, r) ==
    LET given == attr.meta.ok /\ table.ok
                 /\ EntriesOf(attr.meta.val.nested, K_default_permission) # {}
        dp == LastLit(attr.meta.val.nested, K_default_permission)
    IN  /\ r.ok => IF given
                   THEN dp.kind = "Bool" /\ r.val.default_permission = dp.bool
                   ELSE r.val.default_permission = TRUE
        /\ EarlierStagesPass(attr, table) =>
              IF given /\ dp.kind # "Bool"
              THEN FailsAt(r, "InvalidAttributeType", dp.span)
              ELSE r.ok

SameOutcome(a, b) ==
    /\ a.ok = b.ok
    /\ a.ok => a.val = b.val
    /\ ~a.ok => /\ ErrorKind(a.err.msg) = ErrorKind(b.err.msg)
                /\ a.err.span = b.err.span

\* C7: TypeAttribute::parse resolves default_permission to true when the key
\* is absent and to the literal's value when it is a boolean, and fails with
\* the invalid-attribute-type error when it is not a boolean, never falling
\* back to true; the two implementations resolve it alike.
C7_default_permission ==
    /\ op = "TypeAttribute_parse" =>
          DefaultPermissionResolved(input,
              IF input.meta.ok
              THEN NamedAttrs_parse(input.meta.val, TypeAttribute_expected)
              ELSE input.meta,
              result)
    /\ op = "SubcommandTypeAttribute_parse" =>
          DefaultPermissionResolved(input,
              IF input.meta.ok
              THEN crate_parse_NamedAttrs_parse(input.meta.val,
                       <<K_name, K_desc, K_default_permission>>)
              ELSE input.meta,
              result)
    /\ (op \in {"TypeAttribute_parse", "SubcommandTypeAttribute_parse"}
        /\ input.meta.ok) =>
          LET t1 == NamedAttrs_parse(input.meta.val, TypeAttribute_expected)
              t2 == crate_parse_NamedAttrs_parse(input.meta.val,
                        <<K_name, K_desc, K_default_permission>>)
          IN  (t1.ok /\ t2.ok) =>
                 SameOutcome(TypeAttribute_default_permission(t1.val),
                             SubcommandTypeAttribute_default_permission(t2.val))

\* A type attribute whose default_permission is not a boolean is refused
\* although its name is valid.
C7_witness ==
    /\ op = "TypeAttribute_parse"
    /\ input.meta.ok
    /\ input.meta.val.shape = "List"
    /\ EntriesOf(input.meta.val.nested, K_default_permission) # {}
    /\ EntriesOf(input.meta.val.nested, K_name) # {}
    /\ ~NameBad(LastLit(input.meta.val.nested, K_name))
    /\ LastLit(input.meta.val.nested, K_default_permission).kind = "Str"
    /\ Fails(result, "InvalidAttributeType")

SingleEntry(meta, i) == [meta EXCEPT !.nested = <<meta.nested[i]>>]

HasCommandAttr(x) == \E a \in 1..Len(x.attrs) : x.attrs[a].path = <<K_command>>

FirstCommandAttr(x) ==
    x.attrs[Min({a \in 1..Len(x.attrs) : x.attrs[a].path = <<K_command>>})]

\* The order of the checks on one variant.
VariantCheckOrder(x, r) ==
    IF x.fields # "Unnamed"
    THEN r = Error_new(x.span, "Variant must be an unnamed variant")
    ELSE IF Len(x.unnamed) # 1
    THEN r = Error_new(x.span, "Variant must have exactly one unnamed field")
    ELSE IF x.unnamed[1].kind # "Path"
    THEN FailsAt(r, "UnsupportedFieldType", x.unnamed[1].span)
    ELSE IF ~HasCommandAttr(x)
    THEN FailsAt(r, "MissingRequiredAttribute", x.span)
    ELSE r = VariantAttribute_parse(FirstCommandAttr(x))

\* The order of the checks of TypeAttribute::parse on an accepted list.
TypeCheckOrder(attr, r) ==
    LET nested == attr.meta.val.nested
        has(k) == EntriesOf(nested, k) # {}
    IN  IF ~has(K_name)
        THEN FailsAt(r, "MissingRequiredAttribute", attr.span)
        ELSE IF NameBad(LastLit(nested, K_name))
        THEN /\ ~r.ok
             /\ r.err.span = LastLit(nested, K_name).span
             /\ ErrorKind(r.err.msg) \in
                   {"InvalidAttributeType", "NameLengthOutOfRange"}
        ELSE IF has(K_desc) /\ DescBad(LastLit(nested, K_desc))
        THEN /\ ~r.ok
             /\ r.err.span = LastLit(nested, K_desc).span
             /\ ErrorKind(r.err.msg) \in
                   {"InvalidAttributeType", "DescriptionLengthOutOfRange"}
        ELSE IF has(K_default_permission)
                /\ LastLit(nested, K_default_permission).kind # "Bool"
        THEN FailsAt(r, "InvalidAttributeType",
                     LastLit(nested, K_default_permission).span)
        ELSE r.ok

HasTwoUnnamedFields(x) == x.fields = "Unnamed" /\ Len(x.unnamed) = 2

\* A single-field unnamed variant carrying a #[command(name = ...)] attribute.
SingleFieldWithCommandName(x) ==
    /\ x.fields = "Unnamed"
    /\ Len(x.unnamed) = 1
    /\ \E a \in 1..Len(x.attrs) :
          /\ x.attrs[a].path = <<K_command>>
          /\ x.attrs[a].meta.ok
          /\ x.attrs[a].meta.val.shape = "List"
          /\ EntriesOf(x.attrs[a].meta.val.nested, K_name) # {}

\* A single-field unnamed variant whose field is a type path and whose first
\* #[command] attribute is a list of `name = literal` entries, the last
\* literal being a string of 1 to 32 characters.
GoodVariant(x) ==
    /\ x.fields = "Unnamed"
    /\ Len(x.unnamed) = 1
    /\ x.unnamed[1].kind = "Path"
    /\ HasCommandAttr(x)
    /\ LET at == FirstCommandAttr(x)
       IN  /\ at.meta.ok
           /\ at.meta.val.shape = "List"
           /\ at.meta.val.nested # <<>>
           /\ \A i \in 1..Len(at.meta.val.nested) :
                 /\ at.meta.val.nested[i].shape = "NameValue"
                 /\ at.meta.val.nested[i].path = <<K_name>>
           /\ ~NameBad(LastLit(at.meta.val.nested, K_name))

OnePerVariantInOrder(variants, parsed) ==
    /\ Len(parsed) = Len(variants)
    /\ \A v \in 1..Len(variants) :
          /\ parsed[v].ident = variants[v].ident
          /\ parsed[v].span = variants[v].span
          /\ parsed[v].inner = variants[v].unnamed[1].ty
          /\ parsed[v].attribute.name =
                LastLit(FirstCommandAttr(variants[v]).meta.val.nested,
                        K_name).str

\* C6, as claimed: an empty enum fails with the empty-enum error; an enum in
\* which some variant has two unnamed fields fails with the
\* invalid-variant-shape error; an enum of single-field unnamed variants that
\* carry a #[command(name = ...)] attribute succeeds with one ParsedVariant
\* per variant in declaration order.
C6_as_claimed ==
    op = "from_variants" =>
        /\ input = <<>> => FailsAt(result, "EmptyEnum", input_span)
        /\ (\E v \in 1..Len(input) : HasTwoUnnamedFields(input[v]))
              => Fails(result, "InvalidVariantShape")
        /\ (input # <<>>
            /\ \A v \in 1..Len(input) : SingleFieldWithCommandName(input[v]))
              => result.ok /\ OnePerVariantInOrder(input, result.val)

\* C6, amended: an enum with a two-field variant fails, with the
\* invalid-variant-shape error of that variant when every variant before it
\* is good; an enum succeeds, one ParsedVariant per variant in declaration
\* order, when every variant is good: a single unnamed field that is a type
\* path, and a first #[command] attribute that is a list of name entries
\* whose last literal is a string of 1 to 32 characters.
C6_from_variants ==
    op = "from_variants" =>
        /\ input = <<>> => FailsAt(result, "EmptyEnum", input_span)
        /\ \A v \in 1..Len(input) :
              HasTwoUnnamedFields(input[v]) =>
                 /\ ~result.ok
                 /\ (\A u \in 1..(v - 1) : GoodVariant(input[u]))
                       => FailsAt(result, "InvalidVariantShape", input[v].span)
        /\ (input # <<>> /\ \A v \in 1..Len(input) : GoodVariant(input[v]))
              => result.ok /\ OnePerVariantInOrder(input, result.val)

\* Two good variants of different inner types are parsed.
C6_witness ==
    /\ op = "from_variants"
    /\ Len(input) = 2
    /\ GoodVariant(input[1])
    /\ GoodVariant(input[2])
    /\ result.ok
    /\ result.val[1].inner # result.val[2].inner

\* The option name the claim C8 gives a field: the value of `rename` when the
\* field's attribute gives one, the declared identifier otherwise.
ResolvedName(field) ==
    IF ~HasCommandAttr(field) THEN field.ident
    ELSE LET nested == FirstCommandAttr(field).meta.val.nested
         IN  IF EntriesOf(nested, K_rename) = {} THEN field.ident
             ELSE LastLit(nested, K_rename).str

IsDemoCommand(decl) ==
    /\ decl.fields = "Named"
    /\ decl.named = <<PlaceField(FieldPool[1], 1), PlaceField(FieldPool[2], 2),
                      PlaceField(FieldPool[3], 3)>>

\* C8: the option name of a field is its rename when given and its declared
\* identifier otherwise; the generated parser matches the supplied options by
\* that name; the fields user (renamed member), text, number give the options
\* member, text, number in declaration order.
C8_option_names ==
    /\ op = "name_default" =>
          result = IF input.self.rename.some THEN input.self.rename.val
                   ELSE input.default
    /\ (op = "from_fields" /\ result.ok /\ input.fields = "Named") =>
          /\ Len(result.val.names) = Len(input.named)
          /\ \A i \in 1..Len(input.named) :
                result.val.names[i] = ResolvedName(input.named[i])
    /\ (op = "from_fields" /\ IsDemoCommand(input)) =>
          /\ result.ok
          /\ result.val.names = <<K_member, K_text, K_number>>
    /\ (op = "from_interaction" /\ result.ok) =>
          \A i \in 1..Len(input.decl.named) :
             LET hits == {j \in 1..Len(input.options) :
                            input.options[j].name =
                               ResolvedName(input.decl.named[i])}
             IN  IF hits = {} THEN result.val[i] = None
                 ELSE \A j \in hits :
                         result.val[i] = Some(input.options[j].value)

\* The test of tests/command_model.rs: the options member, text and number
\* fill the fields user, text and number.
C8_witness ==
    /\ op = "from_interaction"
    /\ IsDemoCommand(input.decl)
    /\ result.ok
    /\ result.val = <<Some("User(123)"), Some("String(hello world)"),
                      Some("Integer(42)")>>

\* C1: every final name of a model that parsing returns is 1 to 32
\* characters long: the command name, every subcommand name, and every
\* option name as resolved by name_default, with or without a rename.
C1_names_in_range ==
    /\ (op \in {"TypeAttribute_parse", "SubcommandTypeAttribute_parse",
                "VariantAttribute_parse"} /\ result.ok)
          => Len(result.val.name) \in 1..32
    /\ (op = "FieldAttribute_parse" /\ result.ok /\ result.val.rename.some)
          => Len(result.val.rename.val) \in 1..32
    /\ (op = "from_variants" /\ result.ok) =>
          \A v \in 1..Len(result.val) :
             Len(result.val[v].attribute.name) \in 1..32
    /\ op = "name_default" => Len(result) \in 1..32
    /\ (op = "from_fields" /\ result.ok) =>
          \A i \in 1..Len(result.val.names) :
             Len(result.val.names[i]) \in 1..32

\* C2: NamedAttrs::parse fails with the unrecognized-parameter error whenever
\* the entries are all `identifier = literal` pairs and some identifier is
\* not one of the recognized key names.
C2_unrecognized_key_fails ==
    (op = "NamedAttrs_parse"
     /\ input.meta.shape = "List"
     /\ AllPairs(input.meta.nested)
     /\ \E k \in KeysOf(input.meta.nested) : k \notin Elems(input.expected))
        => Fails(result, "UnrecognizedParameter")

\* The vocabulary of each position.
Vocabulary(position) ==
    CASE position = "TypeAttribute_parse"
            -> {K_name, K_desc, K_default_permission}
      [] position = "SubcommandTypeAttribute_parse"
            -> {K_name, K_desc, K_default_permission}
      [] position = "FieldAttribute_parse" -> {K_rename, K_desc}
      [] position = "VariantAttribute_parse" -> {K_name}

\* C3: an attribute carrying a key outside the vocabulary of its position is
\* a hard error: the parse returns an error and no model.
C3_fixed_vocabulary ==
    (op \in {"TypeAttribute_parse", "SubcommandTypeAttribute_parse",
             "FieldAttribute_parse", "VariantAttribute_parse"}
     /\ input.meta.ok
     /\ input.meta.val.shape = "List"
     /\ AllPairs(input.meta.val.nested)
     /\ \E k \in KeysOf(input.meta.val.nested) : k \notin Vocabulary(op))
        => ~result.ok

====
